---- MODULE Spec2Model ----
(***************************************************************************)
(* Marstek UDP integration: the per-port lock registry, the request/reply  *)
(* transaction of MarstekApiClient._udp_call, the four device operations   *)
(* and the poll cycle of MarstekCoordinator._async_update_data.            *)
(*                                                                         *)
(* Coroutines are cut at their await points: one action is the code that   *)
(* runs between two suspensions of one task on the event loop.             *)
(***************************************************************************)
EXTENDS Integers, Sequences, FiniteSets, TLC

(* ------------------------------ bounds ------------------------------- *)
MaxTime == 6
MaxQueue == 1
MaxCycles == 3
GateCycles == 1
MaxOps == 1
Timeout == 2
AltPort == 30001
Threshold == 5
Base == 100
IdWindow == 2

(* ------------------------- program constants ------------------------- *)
DEFAULT_PORT == 30000
INTER_CALL_DELAY == 1
DEFAULT_MIN_POWER_DELTA_W == 0
IdMask == 2147483647

Clients == {"A", "B"}
Callers == {"poll", "setm", "peer"}
DeviceIp == "device"
StrangerIp == "stranger"

\* the client a calling task uses: the coordinator and the entities of one
\* entry share one client (A); a second entry has its own (B)
ClientOf(c) == IF c = "peer" THEN "B" ELSE "A"

(* ------------------------------ values ------------------------------- *)
\* JSON / Python values that occur in replies and snapshots
IntV(i) == [t |-> "int", n |-> i, s |-> ""]
StrV(x) == [t |-> "str", n |-> 0, s |-> x]
BoolV(b) == [t |-> "bool", n |-> IF b THEN 1 ELSE 0, s |-> ""]
NoneV == [t |-> "none", n |-> 0, s |-> ""]
\* datetime.isoformat() + "Z": a string that denotes the instant n
TimeV(i) == [t |-> "str", n |-> i, s |-> "Z"]

EmptyDict == [k \in {} |-> NoneV]
\* dict.get(k): None when the key is absent
Get(d, k) == IF k \in DOMAIN d THEN d[k] ELSE NoneV
\* d[k] = v
Put(d, k, v) == [x \in DOMAIN d \cup {k} |-> IF x = k THEN v ELSE d[x]]
Abs(i) == IF i < 0 THEN 0 - i ELSE i

\* the value under "result" of a reply object
NoResult == [kind |-> "absent", fields |-> EmptyDict]
FalsyResult == [kind |-> "falsy", fields |-> EmptyDict]
OtherResult == [kind |-> "other", fields |-> EmptyDict]
DictResult(f) == [kind |-> "dict", fields |-> f]
\* Python truthiness of resp.get("result")
Truthy(res) ==
    \/ res.kind = "other"
    \/ res.kind = "dict" /\ DOMAIN res.fields # {}

(* ----------------------------- variables ----------------------------- *)
VARIABLES
    now,          \* loop.time() / wall clock, in ticks
    local_port,   \* client -> configured local port (0: not configured)
    min_delta,    \* entry option min_power_delta_w
    faults,       \* the failures the operating system produces in this run
    port_locks,   \* _PORT_LOCKS: port -> lock (owner, FIFO waiters)
    req_id,       \* client -> _req_id
    issued,       \* client -> the ids handed out so far, in order
    set_calls,    \* number of set_mode calls so far
    pc,           \* caller -> position inside _udp_call
    op,           \* caller -> method of the operation in flight
    call_id,      \* caller -> payload["id"] of the call in flight
    sock,         \* caller -> "none" | "raw" (bound socket) | "transport"
    recv_queue,   \* caller -> datagrams queued by datagram_received
    deadline,     \* caller -> absolute deadline of the receive loop
    timer,        \* caller -> when the running wait_for gives up
    sent_at,      \* caller -> time of transport.sendto
    ret,          \* the last return of _udp_call: by whom, for which id, what
    set_ret,      \* what the last set_mode returned
    peer_ret,     \* what the last get_status of client B returned
    cyc,          \* position of the poll cycle
    wake,         \* end of the running asyncio.sleep
    energy_status,\* local of the cycle: result of get_status
    mode,         \* local of the cycle: result of get_mode
    bat_status,   \* local of the cycle: result of get_battery_status
    status,       \* local of the cycle: the dict being built
    last_data,    \* _last_data: <<>> (None) or <<dict>>
    last_success, \* _last_success: <<>> (None) or <<time>>
    last_id,      \* the dict object _last_data refers to (0: None)
    data_id,      \* the dict object coordinator.data refers to (0: None)
    cycles,       \* number of cycles started
    cycle_out,    \* what the last finished cycle returned or raised
    queries,      \* the methods the running cycle has called so far, in order
    returned_at,  \* when the last query of a cycle returned
    coord_data,   \* coordinator.data: <<>> (None) or <<dict>>, what entities read
    entities,     \* the platforms of the entry have been set up
    commands,     \* number of entity commands so far
    entity_call,  \* the last call an entity handed to the executor
    number_last,  \* _last of the number entity: <<>> (unset) or <<value>>
    refresh_requests \* number of async_request_refresh calls by entities

cfgvars == <<local_port, min_delta, faults>>
idvars == <<req_id, issued, set_calls>>
netvars == <<port_locks, pc, op, call_id, sock, recv_queue, deadline, timer,
            sent_at, ret>>
opvars == <<set_ret, peer_ret>>
coordvars == <<cyc, wake, energy_status, mode, bat_status, status,
               last_data, last_success, last_id, data_id, cycles, cycle_out,
               queries, returned_at, coord_data>>
entvars == <<entities, commands, entity_call, number_last, refresh_requests>>
vars == <<now, cfgvars, idvars, netvars, opvars, coordvars, entvars>>

(* ---------------------------- request ids ---------------------------- *)
\* (r + 1) & 0x7FFFFFFF for 0 <= r <= 0x7FFFFFFF, without leaving 32 bits
MaskedInc(r) == IF r = IdMask THEN 0 ELSE r + 1

SameIdAgain(r) == IF r = 0 THEN 1 ELSE r

NextIdNoSkip(r) == MaskedInc(r)

\* MarstekApiClient._next_id: the new value of _req_id, which is returned
_next_id(r) ==
    LET m == MaskedInc(r) IN IF m = 0 THEN 1 ELSE m

(* ----------------------------- port gate ----------------------------- *)
NewLock == [owner |-> "", waiters |-> <<>>]

\* _port_lock(p): the registry after the lookup (the lock is created lazily)
_port_lock(p) ==
    IF p \in DOMAIN port_locks THEN port_locks
    ELSE [x \in DOMAIN port_locks \cup {p} |->
            IF x = p THEN NewLock ELSE port_locks[x]]

OnePortForAll(cl) == DEFAULT_PORT

\* bind_port = int(self._local_port) if self._local_port else int(self._port)
BindPort(cl) ==
    IF local_port[cl] # 0 THEN local_port[cl] ELSE DEFAULT_PORT

AlwaysFree(l) == TRUE

\* asyncio.Lock.acquire takes the lock at once only when it is not held and
\* nobody waits for it
LockFree(l) == l.owner = "" /\ l.waiters = <<>>

ReleaseToLast(locks, p) ==
    LET w == locks[p].waiters IN
    IF w = <<>>
    THEN [locks EXCEPT ![p] = NewLock]
    ELSE [locks EXCEPT ![p] = [owner |-> w[Len(w)],
                               waiters |-> SubSeq(w, 1, Len(w) - 1)]]

\* asyncio.Lock.release: the lock goes to the first waiter, if any
Release(locks, p) ==
    IF locks[p].waiters = <<>>
    THEN [locks EXCEPT ![p] = NewLock]
    ELSE [locks EXCEPT ![p] = [owner |-> Head(locks[p].waiters),
                               waiters |-> Tail(locks[p].waiters)]]

Woken(p) ==
    IF port_locks[p].waiters = <<>> THEN {} ELSE {Head(port_locks[p].waiters)}

\* sockets of this process that are open and bound to port p
OpenOn(p) == {c \in Callers : sock[c] # "none" /\ BindPort(ClientOf(c)) = p}

(* ----------------------------- datagrams ----------------------------- *)
\* a received datagram: sender address and source port, whether the bytes
\* are valid UTF-8,
\* and what json.loads makes of the text that decode("utf-8", "ignore")
\* leaves: "text" (not JSON), "array" (JSON, not an object) or "object"
\* with its "id" (<<>>: no such key) and its "result"
Dgram(src, utf8, kind, id, res) ==
    [src |-> src, sport |-> DEFAULT_PORT, utf8 |-> utf8, kind |-> kind,
     id |-> id, result |-> res]

\* a source port other than the one the requests are sent to
EphemeralPort == DEFAULT_PORT + 1

\* the datagram d sent from source port p
FromPort(d, p) == [d EXCEPT !.sport = p]

NoDgram == Dgram("", TRUE, "none", <<>>, NoResult)

\* an id other than i: the id of the request before or after it
OtherId(i) == IF i = 1 THEN 2 ELSE i - 1

SenderAndPortOk(d, cl) == d.src = DeviceIp /\ d.sport = DEFAULT_PORT

\* if addr and addr[0] != self._ip: continue
SenderOk(d, cl) == d.src = DeviceIp

\* json.loads(text) succeeded
IsJson(d) == d.kind \in {"array", "object"}

\* isinstance(obj, dict)
IsDict(d) == d.kind = "object"

AnyId(d, id) == TRUE

\* obj.get("id") == req_id
IdOk(d, id) == d.id = <<id>>

\* the checks of one pass of the receive loop
Accepted(d, c) ==
    /\ SenderOk(d, ClientOf(c))
    /\ IsJson(d)
    /\ IsDict(d)
    /\ IdOk(d, call_id[c])

(* --------------------------- typed results --------------------------- *)
\* dataclass defaults (api.py): every optional field is None
EnergyDefaults ==
    [k \in {"id", "bat_soc", "bat_cap", "pv_power", "ongrid_power",
            "offgrid_power", "bat_power", "total_pv_energy",
            "total_grid_output_energy", "total_grid_input_energy",
            "total_load_energy"} |-> IF k = "id" THEN IntV(0) ELSE NoneV]

BatteryDefaults ==
    [k \in {"id", "soc", "charg_flag", "dischrg_flag", "bat_temp",
            "bat_voltage", "bat_current", "bat_capacity", "rated_capacity",
            "error_code"} |-> IF k = "id" THEN IntV(0) ELSE NoneV]

ModeDefaults ==
    [k \in {"id", "mode", "ongrid_power", "offgrid_power", "bat_soc"} |->
        IF k = "id" THEN IntV(0)
        ELSE IF k = "mode" THEN StrV("Unknown") ELSE NoneV]

\* cls.from_dict(data): the annotated fields of data over the defaults
from_dict(defaults, data) ==
    IF DOMAIN data = {} THEN defaults
    ELSE [k \in DOMAIN defaults |->
            IF k \in DOMAIN data THEN data[k] ELSE defaults[k]]

\* what an operation hands to its caller
NoData == [kind |-> "none", rec |-> EmptyDict]
Raised == [kind |-> "raise", rec |-> EmptyDict]
Data(r) == [kind |-> "data", rec |-> r]

RetNoneRaises(exit) == [kind |-> "raise", exit |-> exit, dgram |-> NoDgram]

\* what _udp_call hands to its caller: a reply object, None, or an exception
RetNone(exit) == [kind |-> "None", exit |-> exit, dgram |-> NoDgram]
RetReply(d) == [kind |-> "reply", exit |-> "accepted", dgram |-> d]
RetRaise(exit) == [kind |-> "raise", exit |-> exit, dgram |-> NoDgram]
\* the same with the caller and the id of its request
Returned(c, id, r) ==
    [caller |-> c, id |-> id, kind |-> r.kind, exit |-> r.exit, dgram |-> r.dgram]
NoRet == Returned("", 0, [kind |-> "pending", exit |-> "", dgram |-> NoDgram])

\* get_status / get_mode / get_battery_status after _udp_call returned r:
\*   if not resp: return None
\*   result = resp.get("result")
\*   return Cls.from_dict(result) if result else None
\* from_dict calls data.items(), which a truthy non-dict result has not
Typed(defaults, r) ==
    IF r.kind = "raise" THEN Raised
    ELSE IF r.kind = "None" THEN NoData
    ELSE IF ~Truthy(r.dgram.result) THEN NoData
    ELSE IF r.dgram.result.kind # "dict" THEN Raised
    ELSE Data(from_dict(defaults, r.dgram.result.fields))

get_status(r) == Typed(EnergyDefaults, r)
get_mode(r) == Typed(ModeDefaults, r)
get_battery_status(r) == Typed(BatteryDefaults, r)

\* bool(ok): truthiness of a JSON value
TruthyV(v) ==
    \/ v.t \in {"int", "bool"} /\ v.n # 0
    \/ v.t = "str" /\ v.s # ""

SetModeNeedsFlag(r) ==
    IF r.kind = "raise" THEN [kind |-> "raise", ok |-> FALSE]
    ELSE IF r.kind = "None" THEN [kind |-> "bool", ok |-> FALSE]
    ELSE IF r.dgram.result.kind # "dict" THEN [kind |-> "bool", ok |-> FALSE]
    ELSE [kind |-> "bool",
          ok |-> TruthyV(Get(r.dgram.result.fields, "set_result"))]

\* set_mode after _udp_call returned r
set_mode(r) ==
    IF r.kind = "raise" THEN [kind |-> "raise", ok |-> FALSE]
    ELSE IF r.kind = "None" THEN [kind |-> "bool", ok |-> FALSE]
    ELSE IF r.dgram.result.kind # "dict" THEN [kind |-> "bool", ok |-> FALSE]
    ELSE LET okv == Get(r.dgram.result.fields, "set_result") IN
         [kind |-> "bool", ok |-> IF okv # NoneV THEN TruthyV(okv) ELSE TRUE]

NoSetRet == [kind |-> "none", ok |-> FALSE]

(* ---------------------------- poll cycle ----------------------------- *)
EnergyKeys == DOMAIN EnergyDefaults \ {"id"}

\* the fields of Bat.GetStatus copied under their own name, in code order
BatteryCopyKeys ==
    <<"charg_flag", "dischrg_flag", "bat_temp", "bat_voltage", "bat_current",
      "bat_capacity", "rated_capacity", "error_code">>

\* keys k with k.endswith("_power") or k.endswith("power")
PowerKeys == {"pv_power", "ongrid_power", "offgrid_power", "bat_power"}

\* isinstance(v, (int, float)); bool is a subclass of int
IsNumber(v) == v.t \in {"int", "bool"}

\* coordinator.py 39-60: the energy fields that are not None
Seed(es) == [k \in {x \in EnergyKeys : es[x] # NoneV} |-> es[k]]

Overwrite(d, k, v) == Put(d, k, v)

\* dict.setdefault(k, v)
SetDefault(d, k, v) == IF k \in DOMAIN d THEN d ELSE Put(d, k, v)

RECURSIVE CopyFields(_, _, _)
CopyFields(d, bs, ks) ==
    IF ks = <<>> THEN d
    ELSE CopyFields(IF bs[Head(ks)] # NoneV
                    THEN SetDefault(d, Head(ks), bs[Head(ks)])
                    ELSE d,
                    bs, Tail(ks))

\* coordinator.py 71-90: fill the keys that are still absent
MergeBattery(d, bs) ==
    LET withSoc == IF bs["soc"] # NoneV
                   THEN SetDefault(SetDefault(d, "bat_soc", bs["soc"]),
                                   "soc", bs["soc"])
                   ELSE d
    IN CopyFields(withSoc, bs, BatteryCopyKeys)

CloseLe(a, b, t) == Abs(a - b) <= t

\* abs(float(v) - float(prev)) < float(min_delta)
Close(a, b, t) == Abs(a - b) < t

SmoothKeepsFrozen(d, last, t) ==
    IF t > 0 /\ last # <<>>
    THEN [k \in DOMAIN d |->
            IF IsNumber(d[k]) /\ k \in PowerKeys /\ IsNumber(Get(last[1], k))
            THEN Get(last[1], k) ELSE d[k]]
    ELSE d

SmoothOverLast(d, last, t) ==
    IF last # <<>>
    THEN [k \in DOMAIN d \cup DOMAIN last[1] |->
            IF k \in DOMAIN d THEN d[k] ELSE last[1][k]]
    ELSE d

\* coordinator.py 93-99
Smooth(d, last, t) ==
    IF t > 0 /\ last # <<>>
    THEN [k \in DOMAIN d |->
            IF IsNumber(d[k]) /\ k \in PowerKeys
            THEN LET prev == Get(last[1], k) IN
                 IF IsNumber(prev) /\ Close(d[k].n, prev.n, t)
                 THEN prev ELSE d[k]
            ELSE d[k]]
    ELSE d

\* coordinator.py 102-105: dict(status) plus the two reserved keys
Committed(d, t) == Put(Put(d, "_stale", BoolV(FALSE)), "_last_success", TimeV(t))

StaleKeepsFlag(last) == last

\* coordinator.py 34-35: data = dict(self._last_data); data["_stale"] = True
StaleCopy(last) == Put(last, "_stale", BoolV(TRUE))

\* if self._last_data:
HasLast(last) == last # <<>> /\ DOMAIN last[1] # {}

SameDict(new, src) == src

\* dict(d): a new dict object with the items of the object src; new is the
\* object that the running cycle creates
DictOf(new, src) == new

SameObject(t) == IF last_id # 0 THEN last_id ELSE t + 1

\* names of dict objects: the snapshot committed at instant t (two commits
\* are at least two sleeps apart), and the copy made by cycle n
CommitObject(t) == t + 1
CopyObject(n) == 0 - n

\* the items of the object ref after obj[k] = v: every reference to obj
\* sees the assignment
SetItem(obj, k, v, ref, items) == IF ref = obj THEN Put(items, k, v) ELSE items

\* what a cycle returned or raised, with what it was computed from
\* kind: "fresh" or "stale" (a returned dict), "UpdateFailed", "error"
\* (another exception), "none" (the cycle runs); streak: the stale cycles in a
\* row up to now
Out(kind, data, merged, prev, es, bs, streak) ==
    [kind |-> kind, data |-> data, merged |-> merged, prev |-> prev,
     energy |-> es, battery |-> bs, streak |-> streak]
NoOut(streak) == Out("none", EmptyDict, EmptyDict, <<>>, NoData, NoData, streak)

UpdateFailedOut(last, t) ==
    Out("UpdateFailed", EmptyDict, EmptyDict, last, t, NoData, 0)

EmptyInsteadOfRaise(last, t, streak) ==
    IF HasLast(last)
    THEN Out("stale", StaleCopy(last[1]), EmptyDict, last, t, NoData, streak + 1)
    ELSE Out("stale", StaleCopy(EmptyDict), EmptyDict, last, t, NoData, streak + 1)

\* coordinator.py 32-37: get_status returned None
NoDataOut(last, t, streak) ==
    IF HasLast(last)
    THEN Out("stale", StaleCopy(last[1]), EmptyDict, last, t, NoData, streak + 1)
    ELSE UpdateFailedOut(last, t)

\* coordinator.data after a cycle: the dict the cycle returned; a cycle that
\* raised leaves it as it was
Handed(old, out) ==
    IF out.kind \in {"fresh", "stale"} THEN <<out.data>> ELSE old

(* ----------------------------- entities ------------------------------ *)
\* select.py 15
MODES == <<"Auto", "AI", "Manual", "Passive">>

IsMode(x) == \E i \in 1 .. Len(MODES) : MODES[i] = x

\* str.capitalize(): the first character in upper case, the others in lower
capitalize(x) ==
    CASE x \in {"Auto", "auto", "AUTO"} -> "Auto"
      [] x \in {"AI", "ai", "Ai"} -> "Ai"
      [] x \in {"Manual", "manual"} -> "Manual"
      [] x \in {"Passive", "passive"} -> "Passive"
      [] OTHER -> x

\* select.py 57-66: the mode name and the configuration key given to set_mode
ModeCall(option) ==
    LET o == capitalize(option) IN
    IF o = "Auto" THEN [mode |-> "Auto", cfg |-> "auto_cfg"]
    ELSE IF o = "AI" THEN [mode |-> "AI", cfg |-> "ai_cfg"]
    ELSE IF o = "Manual" THEN [mode |-> "Manual", cfg |-> "manual_cfg"]
    ELSE [mode |-> "Passive", cfg |-> "passive_cfg"]

\* ModeSelect.current_option over coordinator.data: <<>> is None
current_option(d) ==
    LET m == Get(IF d = <<>> THEN EmptyDict ELSE d[1], "es_mode") IN
    IF ~TruthyV(m) THEN <<>>
    ELSE IF IsMode(capitalize(m.s)) THEN <<capitalize(m.s)>> ELSE <<>>

\* data = self.coordinator.data or {}: what a sensor computes its state from
EntityData == IF coord_data = <<>> THEN EmptyDict ELSE coord_data[1]

\* hass.async_add_executor_job(call) runs call() in a worker thread and hands
\* back its value; call is a partial of the coroutine function set_mode, so
\* the value is a coroutine object that nobody awaits: it is truthy, and
\* the body of set_mode does not run
ExecutorJob == [kind |-> "coroutine", ok |-> TRUE]

NoCall == [option |-> "", mode |-> "", cfg |-> "", job |-> NoSetRet]

(* ------------------------------- Init -------------------------------- *)
InitState ==
    /\ now = 0
    /\ port_locks = [p \in {} |-> NewLock]
    /\ issued = [cl \in Clients |-> <<>>]
    /\ set_calls = 0
    /\ pc = [c \in Callers |-> "idle"]
    /\ op = [c \in Callers |-> "none"]
    /\ call_id = [c \in Callers |-> 0]
    /\ sock = [c \in Callers |-> "none"]
    /\ recv_queue = [c \in Callers |-> <<>>]
    /\ deadline = [c \in Callers |-> 0]
    /\ timer = [c \in Callers |-> 0]
    /\ sent_at = [c \in Callers |-> 0]
    /\ ret = NoRet
    /\ set_ret = NoSetRet
    /\ peer_ret = NoData
    /\ cyc = "idle"
    /\ wake = 0
    /\ energy_status = NoData
    /\ mode = NoData
    /\ bat_status = NoData
    /\ status = EmptyDict
    /\ last_data = <<>>
    /\ last_success = <<>>
    /\ last_id = 0
    /\ data_id = 0
    /\ cycles = 0
    /\ cycle_out = NoOut(0)
    /\ queries = <<>>
    /\ returned_at = 0
    /\ coord_data = <<>>
    /\ entities = FALSE
    /\ commands = 0
    /\ entity_call = NoCall
    /\ number_last = <<>>
    /\ refresh_requests = 0

\* __init__.py 47-52: the client of an entry gets its device port as local
\* port unless another one is configured; lp is the local port of client B
Ports(lp) == [cl \in Clients |-> IF cl = "A" THEN DEFAULT_PORT ELSE lp]

\* one entry with the default options
Init ==
    /\ InitState
    /\ req_id = [cl \in Clients |-> 0]
    /\ min_delta = DEFAULT_MIN_POWER_DELTA_W
    /\ local_port = Ports(AltPort)
    /\ faults = {"bind", "endpoint", "send"}

\* two entries: the second one without a local port, or with its own
InitGate ==
    /\ InitState
    /\ req_id = [cl \in Clients |-> 0]
    /\ min_delta = DEFAULT_MIN_POWER_DELTA_W
    /\ \E lp \in {0, AltPort} : local_port = Ports(lp)
    /\ faults = {"bind", "endpoint", "send"}

\* one entry, smoothing off or on
InitPoll ==
    /\ InitState
    /\ req_id = [cl \in Clients |-> 0]
    /\ min_delta \in {DEFAULT_MIN_POWER_DELTA_W, Threshold}
    /\ local_port = Ports(AltPort)
    /\ faults = {}

\* one entry whose client has issued many requests already
InitWrap ==
    /\ InitState
    /\ \E r \in {0} \cup {IdMask - k : k \in 0 .. IdWindow} :
         req_id = [cl \in Clients |-> r]
    /\ min_delta = DEFAULT_MIN_POWER_DELTA_W
    /\ local_port = Ports(AltPort)
    /\ faults = {"bind", "endpoint", "send"}

(* --------------------- the cycle after each query -------------------- *)
CycleLocals == <<energy_status, mode, bat_status, status>>

\* an exception of the query leaves _async_update_data as it is
CycleRaises(es, bs) ==
    /\ cyc' = "idle"
    /\ cycle_out' = Out("error", EmptyDict, EmptyDict, last_data, es, bs, 0)
    /\ UNCHANGED <<wake, status, last_data, last_success, last_id, data_id,
                   cycles, coord_data>>

\* a cycle that goes on to the mode query whatever get_status returned
AfterStatusGoesOn(t) ==
    /\ energy_status' = t
    /\ UNCHANGED <<mode, bat_status>>
    /\ IF t.kind = "raise" THEN CycleRaises(t, NoData)
       ELSE /\ status' = IF t.kind = "data" THEN Seed(t.rec) ELSE EmptyDict
            /\ cyc' = "sleep1"
            /\ wake' = now + INTER_CALL_DELAY
            /\ UNCHANGED <<last_data, last_success, last_id, data_id,
                           cycles, cycle_out, coord_data>>

\* coordinator.py 31-60, after get_status returned t
AfterStatus(t) ==
    /\ energy_status' = t
    /\ UNCHANGED <<mode, bat_status>>
    /\ CASE t.kind = "raise" -> CycleRaises(t, NoData)
         [] t.kind = "none" ->
              /\ cyc' = "idle"
              /\ cycle_out' = NoDataOut(last_data, t, cycle_out.streak)
              /\ coord_data' = Handed(coord_data, cycle_out')
              /\ IF HasLast(last_data)
                 THEN LET data == DictOf(CopyObject(cycles), last_id) IN
                      /\ data_id' = data
                      /\ last_data' = <<SetItem(data, "_stale", BoolV(TRUE),
                                                last_id, last_data[1])>>
                 ELSE UNCHANGED <<data_id, last_data>>
              /\ UNCHANGED <<wake, status, last_success, last_id, cycles>>
         [] t.kind = "data" ->
              /\ status' = Seed(t.rec)
              /\ cyc' = "sleep1"
              /\ wake' = now + INTER_CALL_DELAY
              /\ UNCHANGED <<last_data, last_success, last_id, data_id,
                             cycles, cycle_out, coord_data>>

\* coordinator.py 64-69, after get_mode returned t
AfterMode(t) ==
    /\ mode' = t
    /\ UNCHANGED <<energy_status, bat_status>>
    /\ IF t.kind = "raise" THEN CycleRaises(energy_status, NoData)
       ELSE /\ status' = IF t.kind = "data"
                         THEN Put(status, "es_mode", t.rec["mode"])
                         ELSE status
            /\ cyc' = "sleep2"
            /\ wake' = now + INTER_CALL_DELAY
            /\ UNCHANGED <<last_data, last_success, last_id, data_id, cycles,
                           cycle_out, coord_data>>

\* coordinator.py 70-106, after get_battery_status returned t
AfterBattery(t) ==
    /\ bat_status' = t
    /\ UNCHANGED <<energy_status, mode>>
    /\ IF t.kind = "raise" THEN CycleRaises(energy_status, t)
       ELSE LET merged == IF t.kind = "data"
                          THEN MergeBattery(status, t.rec) ELSE status
                smoothed == Smooth(merged, last_data, min_delta)
                new == Committed(smoothed, now)
            IN /\ status' = smoothed
               /\ last_data' = <<new>>
               /\ last_success' = <<now>>
               /\ last_id' = CommitObject(now)
               /\ data_id' = CommitObject(now)
               /\ cycle_out' = Out("fresh", new, merged, last_data,
                                   energy_status, t, 0)
               /\ coord_data' = Handed(coord_data, cycle_out')
               /\ cyc' = "idle"
               /\ UNCHANGED <<wake, cycles>>

\* the code that runs when _udp_call of caller c ends with r
Continue(c, r) ==
    CASE c = "setm" ->
           /\ set_ret' = set_mode(r)
           /\ UNCHANGED <<peer_ret, coordvars>>
      [] c = "peer" ->
           /\ peer_ret' = get_status(r)
           /\ UNCHANGED <<set_ret, coordvars>>
      [] c = "poll" ->
           /\ UNCHANGED <<opvars, queries>>
           /\ returned_at' = now
           /\ CASE cyc = "status" -> AfterStatus(get_status(r))
                [] cyc = "mode" -> AfterMode(get_mode(r))
                [] cyc = "battery" -> AfterBattery(get_battery_status(r))

(* ---------------------------- _udp_call ------------------------------ *)
\* sock.close()
CloseSock(s) == "none"

\* transport.close()
TransportClose(s) == "none"

SkipOuterFinally(s) == s

\* api.py 239-244: if sock is not None: sock.close()
OuterFinally(s) == IF s = "raw" THEN "none" ELSE s

\* api.py 132-166: a new id, the payload, and the entry of "async with"
Call(c, o) ==
    LET cl == ClientOf(c)
        id == _next_id(req_id[cl])
        p == BindPort(cl)
        reg == _port_lock(p)
    IN /\ pc[c] = "idle"
       /\ req_id' = [req_id EXCEPT ![cl] = id]
       /\ issued' = [issued EXCEPT ![cl] = Append(@, id)]
       /\ set_calls' = IF o = "set_mode" THEN set_calls + 1 ELSE set_calls
       /\ op' = [op EXCEPT ![c] = o]
       /\ call_id' = [call_id EXCEPT ![c] = id]
       /\ IF LockFree(reg[p])
          THEN /\ port_locks' = [reg EXCEPT ![p].owner = c]
               /\ pc' = [pc EXCEPT ![c] = "locked"]
          ELSE /\ port_locks' = [reg EXCEPT ![p].waiters = Append(@, c)]
               /\ pc' = [pc EXCEPT ![c] = "waitlock"]
       /\ UNCHANGED <<sock, recv_queue, deadline, timer, sent_at, ret, now,
                      cfgvars, entvars>>

\* every way out of the "async with" block: the socket state s left by
\* the finally clauses, the lock released, the result handed to the caller
Return(c, r, s) ==
    LET p == BindPort(ClientOf(c)) IN
    /\ sock' = [sock EXCEPT ![c] = s]
    /\ port_locks' = Release(port_locks, p)
    /\ pc' = [x \in Callers |->
                IF x = c THEN "idle"
                ELSE IF x \in Woken(p) THEN "locked" ELSE pc[x]]
    /\ recv_queue' = [recv_queue EXCEPT ![c] = <<>>]
    /\ ret' = Returned(c, call_id[c], r)
    /\ op' = [op EXCEPT ![c] = "none"]
    /\ call_id' = [call_id EXCEPT ![c] = 0]
    /\ deadline' = [deadline EXCEPT ![c] = 0]
    /\ timer' = [timer EXCEPT ![c] = 0]
    /\ sent_at' = [sent_at EXCEPT ![c] = 0]
    /\ Continue(c, r)
    /\ UNCHANGED <<now, cfgvars, idvars, entvars>>

\* api.py 167-185: socket, SO_REUSEADDR, bind, up to the await of the endpoint
BindOf(c) ==
    /\ pc[c] = "locked"
    /\ \E ok \in {TRUE} \cup {b \in {FALSE} : "bind" \in faults} :
         IF ok
         THEN /\ sock' = [sock EXCEPT ![c] = "raw"]
              /\ pc' = [pc EXCEPT ![c] = "endpoint"]
              /\ UNCHANGED <<port_locks, op, call_id, recv_queue, deadline,
                             timer, sent_at, ret, now, cfgvars, idvars,
                             opvars, coordvars, entvars>>
         ELSE Return(c, RetNone("bind"), OuterFinally(CloseSock("raw")))

RemainingFull(dl, t) == Timeout

\* remaining = deadline - loop.time()
Remaining(dl, t) == dl - t

\* api.py 185-203: the endpoint is there (or failed), sendto, the deadline,
\* the first wait
EndpointOf(c) ==
    /\ pc[c] = "endpoint"
    /\ \E how \in {"ok"} \cup (faults \cap {"endpoint", "send"}) :
         CASE how = "endpoint" ->
                Return(c, RetRaise("endpoint"), OuterFinally("raw"))
           [] how = "send" ->
                Return(c, RetNone("send"),
                       OuterFinally(TransportClose("transport")))
           [] how = "ok" ->
                IF Remaining(now + Timeout, now) <= 0
                THEN Return(c, RetNone("timeout"),
                            OuterFinally(TransportClose("transport")))
                ELSE /\ sock' = [sock EXCEPT ![c] = "transport"]
                     /\ sent_at' = [sent_at EXCEPT ![c] = now]
                     /\ deadline' = [deadline EXCEPT ![c] = now + Timeout]
                     /\ timer' = [timer EXCEPT ![c] =
                                    now + Remaining(now + Timeout, now)]
                     /\ pc' = [pc EXCEPT ![c] = "wait"]
                     /\ UNCHANGED <<port_locks, op, call_id, recv_queue, ret,
                                    now, cfgvars, idvars, opvars, coordvars,
                                    entvars>>

\* _UDPClientProtocol.datagram_received
Enqueue(c, d) ==
    /\ pc[c] = "wait"
    /\ Len(recv_queue[c]) < MaxQueue
    /\ recv_queue' = [recv_queue EXCEPT ![c] = Append(@, d)]
    /\ UNCHANGED <<port_locks, pc, op, call_id, sock, deadline, timer, sent_at,
                   ret, now, cfgvars, idvars, opvars, coordvars, entvars>>

\* api.py 203-231 and back to 197-200: one datagram taken from the queue
ReceiveOf(c) ==
    /\ pc[c] = "wait"
    /\ recv_queue[c] # <<>>
    /\ LET d == Head(recv_queue[c]) IN
       IF Accepted(d, c)
       THEN Return(c, RetReply(d), OuterFinally(TransportClose(sock[c])))
       ELSE IF Remaining(deadline[c], now) <= 0
            THEN Return(c, RetNone("timeout"),
                        OuterFinally(TransportClose(sock[c])))
            ELSE /\ recv_queue' = [recv_queue EXCEPT ![c] = Tail(@)]
                 /\ timer' = [timer EXCEPT ![c] =
                                now + Remaining(deadline[c], now)]
                 /\ UNCHANGED <<port_locks, pc, op, call_id, sock, deadline,
                                sent_at, ret, now, cfgvars, idvars, opvars,
                                coordvars, entvars>>

NeverExpired(c) == FALSE

\* asyncio.wait_for raises TimeoutError when `remaining` has elapsed
Expired(c) == now >= timer[c]

\* api.py 204-206
TimeoutOf(c) ==
    /\ pc[c] = "wait"
    /\ Expired(c)
    /\ Return(c, RetNone("timeout"), OuterFinally(TransportClose(sock[c])))

\* api.py 233-237: an exception inside the receive loop
RecvErrorOf(c) ==
    /\ pc[c] = "wait"
    /\ Return(c, RetNone("error"), OuterFinally(TransportClose(sock[c])))

(* ------------------------------ traffic ------------------------------ *)
EnergyDict == [k \in {"bat_soc", "bat_power"} |->
                 IF k = "bat_soc" THEN IntV(50) ELSE IntV(Base)]
BatteryDict == [k \in {"soc", "charg_flag"} |->
                  IF k = "soc" THEN IntV(55) ELSE BoolV(TRUE)]
ModeDict == [k \in {"mode"} |-> StrV("Auto")]
SetDict(b) == [k \in {"set_result"} |-> BoolV(b)]

\* a well-formed result of each method
Ack(o) ==
    CASE o = "get_status" -> DictResult(EnergyDict)
      [] o = "get_mode" -> DictResult(ModeDict)
      [] o = "get_battery_status" -> DictResult(BatteryDict)
      [] o = "set_mode" -> DictResult(SetDict(TRUE))
      [] OTHER -> NoResult

\* the results a device sends for each method
Results(o) ==
    CASE o = "get_status" -> {NoResult, Ack(o)}
      [] o = "set_mode" -> {NoResult, DictResult(EmptyDict), Ack(o),
                            DictResult(SetDict(FALSE))}
      [] OTHER -> {Ack(o)}

\* datagrams that the receive loop has to discard
Junk(c) ==
    LET id == call_id[c]
        res == Ack(op[c])
    IN {Dgram(DeviceIp, TRUE, "text", <<>>, NoResult),
        Dgram(DeviceIp, TRUE, "array", <<>>, NoResult),
        Dgram(DeviceIp, TRUE, "object", <<OtherId(id)>>, res),
        Dgram(StrangerIp, TRUE, "object", <<id>>, res)}

\* replies of the device to the request in flight; one of them arrives
\* with a stray byte that is not UTF-8, one from another source port
Replies(c) ==
    {Dgram(DeviceIp, TRUE, "object", <<call_id[c]>>, r) : r \in Results(op[c])}
    \cup {Dgram(DeviceIp, FALSE, "object", <<call_id[c]>>, Ack(op[c]))}
    \cup {FromPort(Dgram(DeviceIp, TRUE, "object", <<call_id[c]>>, Ack(op[c])),
                    EphemeralPort)}

\* the readings of one power value around the smoothing threshold
Readings == {Base, Base + Threshold - 2, Base + Threshold, Base + Threshold + 1}

\* results of ES.GetStatus: none, not an object, objects with or without
\* bat_soc and with or without a bat_power reading
EnergyResults ==
    {NoResult, OtherResult}
    \cup {DictResult([k \in {"bat_soc"} |-> IntV(50)])}
    \cup {DictResult([k \in {"bat_power"} |-> IntV(Base)])}
    \cup {DictResult([k \in {"bat_soc", "bat_power"} |->
                        IF k = "bat_soc" THEN IntV(50) ELSE IntV(v)]) :
            v \in Readings}

ModeResults ==
    {NoResult, OtherResult, DictResult(ModeDict),
     DictResult([k \in {"bat_soc"} |-> IntV(50)])}

BatteryResults == {NoResult, OtherResult, DictResult(BatteryDict)}

(* ------------------------------ actions ------------------------------ *)
\* the scheduler or a refresh request starts a cycle, at most n in a run
StartCycle(n) ==
    /\ cyc = "idle"
    /\ cycles < n
    /\ Call("poll", "get_status")
    /\ cyc' = "status"
    /\ cycles' = cycles + 1
    /\ energy_status' = NoData
    /\ mode' = NoData
    /\ bat_status' = NoData
    /\ status' = EmptyDict
    /\ cycle_out' = NoOut(cycle_out.streak)
    /\ queries' = <<op'["poll"]>>
    /\ UNCHANGED <<wake, last_data, last_success, last_id, data_id,
                   returned_at, coord_data, opvars>>

PollStart == StartCycle(MaxCycles)
FirstPoll == StartCycle(GateCycles)

SleepSkipped(w, t) == TRUE

\* await asyncio.sleep(INTER_CALL_DELAY) that ends at w has returned
SleepOver(w, t) == t >= w

\* coordinator.py 63-64: the sleep is over
PollMode ==
    /\ cyc = "sleep1"
    /\ SleepOver(wake, now)
    /\ Call("poll", "get_mode")
    /\ cyc' = "mode"
    /\ queries' = Append(queries, op'["poll"])
    /\ UNCHANGED <<wake, CycleLocals, last_data, last_success, last_id,
                   data_id, cycles, cycle_out, returned_at, coord_data,
                   opvars>>

\* coordinator.py 69-70: the sleep is over
PollBattery ==
    /\ cyc = "sleep2"
    /\ SleepOver(wake, now)
    /\ Call("poll", "get_battery_status")
    /\ cyc' = "battery"
    /\ queries' = Append(queries, op'["poll"])
    /\ UNCHANGED <<wake, CycleLocals, last_data, last_success, last_id,
                   data_id, cycles, cycle_out, returned_at, coord_data,
                   opvars>>

\* set_mode is called on the client of the entry
SetModeCall ==
    /\ set_calls < MaxOps
    /\ Call("setm", "set_mode")
    /\ set_ret' = NoSetRet
    /\ UNCHANGED <<peer_ret, coordvars>>

\* the client of the other entry queries its device
PeerCall ==
    /\ Len(issued["B"]) < MaxOps
    /\ Call("peer", "get_status")
    /\ peer_ret' = NoData
    /\ UNCHANGED <<set_ret, coordvars>>

Bind == \E c \in Callers : BindOf(c)
Endpoint == \E c \in Callers : EndpointOf(c)
JunkArrives == \E c \in Callers : \E d \in Junk(c) : Enqueue(c, d)
ReplyArrives == \E c \in Callers : \E d \in Replies(c) : Enqueue(c, d)
AckArrives ==
    \E c \in Callers :
        Enqueue(c, Dgram(DeviceIp, TRUE, "object", <<call_id[c]>>, Ack(op[c])))
Receive == \E c \in Callers : ReceiveOf(c)
TimedOut == \E c \in Callers : TimeoutOf(c)
RecvError == \E c \in Callers : RecvErrorOf(c)

\* the device answers the query of the cycle that is in flight
Answer(o, results) ==
    /\ op["poll"] = o
    /\ \E r \in results :
         Enqueue("poll", Dgram(DeviceIp, TRUE, "object", <<call_id["poll"]>>, r))

StatusReply == Answer("get_status", EnergyResults)
ModeReply == Answer("get_mode", ModeResults)
BatteryReply == Answer("get_battery_status", BatteryResults)

\* the results a device sends for ES.SetMode, well-formed or not
SetResults == Results("set_mode") \cup {OtherResult}

\* the device answers the set_mode call that is in flight
SetReply ==
    /\ op["setm"] = "set_mode"
    /\ \E r \in SetResults :
         Enqueue("setm", Dgram(DeviceIp, TRUE, "object", <<call_id["setm"]>>, r))

\* __init__.py 56-68: the first refresh has ended, with a snapshot or with an
\* exception that is logged and dropped; the platforms are set up
ForwardSetups ==
    /\ ~entities
    /\ cycles >= 1
    /\ cyc = "idle"
    /\ entities' = TRUE
    /\ UNCHANGED <<now, cfgvars, idvars, netvars, opvars, coordvars, commands,
                   entity_call, number_last, refresh_requests>>

\* an entity hands call to the executor and acts on what comes back:
\*   ok = await self.hass.async_add_executor_job(call)
\*   if ok: ... await self.coordinator.async_request_refresh()
EntityCommand(option, m, value) ==
    LET ok == ExecutorJob IN
    /\ entities
    /\ commands < MaxOps
    /\ commands' = commands + 1
    /\ entity_call' = [option |-> option, mode |-> m.mode, cfg |-> m.cfg,
                       job |-> ok]
    /\ number_last' = IF ok.ok /\ value # <<>> THEN value ELSE number_last
    /\ refresh_requests' = IF ok.ok THEN refresh_requests + 1
                           ELSE refresh_requests
    /\ UNCHANGED <<now, cfgvars, idvars, netvars, opvars, coordvars, entities>>

\* ModeSelect.async_select_option (select.py 56-69)
SelectOption ==
    \E i \in 1 .. Len(MODES) : EntityCommand(MODES[i], ModeCall(MODES[i]), <<>>)

\* PassivePowerNumber / PassiveCountdownNumber.async_set_native_value
\* (number.py 57-62, 79-84)
SetNativeValue ==
    \E v \in {0, Base} :
        EntityCommand("", [mode |-> "Passive", cfg |-> "passive_cfg"], <<v>>)

\* time passes while some task waits for a timer that is not yet due (the
\* event loop runs a due timer before it waits again); the code reads the
\* clock only to set such timers and to stamp a commit
Tick ==
    /\ now < MaxTime
    /\ \/ \E c \in Callers : pc[c] = "wait" /\ now < timer[c]
       \/ cyc \in {"sleep1", "sleep2"} /\ now < wake
    /\ now' = now + 1
    /\ UNCHANGED <<cfgvars, idvars, netvars, opvars, coordvars, entvars>>

\* time passes during the sleeps of a cycle only: the device answers at once
SleepTick ==
    /\ now < MaxTime
    /\ cyc \in {"sleep1", "sleep2"}
    /\ now < wake
    /\ now' = now + 1
    /\ UNCHANGED <<cfgvars, idvars, netvars, opvars, coordvars, entvars>>

\* one entry from its setup on: the first refresh and the entities, with
\* bind and send failures and timeouts
InitEntry ==
    /\ InitState
    /\ req_id = [cl \in Clients |-> 0]
    /\ min_delta = DEFAULT_MIN_POWER_DELTA_W
    /\ local_port = Ports(AltPort)
    /\ faults = {"bind", "send"}

NextEntry ==
    \/ FirstPoll
    \/ PollMode
    \/ PollBattery
    \/ ForwardSetups
    \/ SelectOption
    \/ SetNativeValue
    \/ AckArrives
    \/ Bind
    \/ Endpoint
    \/ Receive
    \/ TimedOut
    \/ Tick

SpecEntry == InitEntry /\ [][NextEntry]_vars

\* set_mode called on a client while the client of another entry queries its
\* device: replies of any content, any failure
NextSet ==
    \/ SetModeCall
    \/ SetReply
    \/ PeerCall
    \/ AckArrives
    \/ Bind
    \/ Endpoint
    \/ Receive
    \/ TimedOut
    \/ RecvError
    \/ Tick

SpecSet == Init /\ [][NextSet]_vars

\* one entry that polls, any failure, any traffic
Next ==
    \/ PollStart
    \/ PollMode
    \/ PollBattery
    \/ Bind
    \/ Endpoint
    \/ JunkArrives
    \/ ReplyArrives
    \/ Receive
    \/ TimedOut
    \/ RecvError
    \/ Tick

Spec == Init /\ [][Next]_vars

\* two entries, three tasks that call concurrently, any failure of the
\* operating system, a device that answers at once
NextGate ==
    \/ FirstPoll
    \/ PollMode
    \/ PollBattery
    \/ SetModeCall
    \/ PeerCall
    \/ Bind
    \/ Endpoint
    \/ AckArrives
    \/ Receive
    \/ SleepTick

SpecGate == InitGate /\ [][NextGate]_vars

\* one entry that polls a device that answers every query, with replies of
\* any content
NextPoll ==
    \/ PollStart
    \/ PollMode
    \/ PollBattery
    \/ Bind
    \/ Endpoint
    \/ StatusReply
    \/ ModeReply
    \/ BatteryReply
    \/ Receive
    \/ SleepTick

SpecPoll == InitPoll /\ [][NextPoll]_vars

\* one client used by the cycle and by set_mode, close to the wrap of its ids
NextIds ==
    \/ FirstPoll
    \/ PollMode
    \/ PollBattery
    \/ SetModeCall
    \/ Bind
    \/ Endpoint
    \/ AckArrives
    \/ Receive
    \/ TimedOut
    \/ Tick

SpecWrap == InitWrap /\ [][NextIds]_vars

\* one entry that polls again and again while set_mode is called on its
\* client: a device that answers or stays silent, bind and send failures
NextCache ==
    \/ PollStart
    \/ PollMode
    \/ PollBattery
    \/ SetModeCall
    \/ Bind
    \/ Endpoint
    \/ AckArrives
    \/ Receive
    \/ TimedOut
    \/ Tick

SpecCache == InitEntry /\ [][NextCache]_vars

\* a timer of the event loop is due: a wait_for or a sleep has run out
TimerDue ==
    \/ \E c \in Callers : pc[c] = "wait" /\ now >= timer[c]
    \/ cyc \in {"sleep1", "sleep2"} /\ now >= wake

\* time passes while tasks wait for timers and none of them is due: the event
\* loop runs the timers that are due before it waits again. The calls of a
\* run are finitely many and each wait ends at its timer, so the clock of
\* such a run needs no other bound
Elapse ==
    /\ \/ \E c \in Callers : pc[c] = "wait"
       \/ cyc \in {"sleep1", "sleep2"}
    /\ ~TimerDue
    /\ now' = now + 1
    /\ UNCHANGED <<cfgvars, idvars, netvars, opvars, coordvars, entvars>>

\* two entries, three tasks that call concurrently, any failure of the
\* operating system, and a device that stays silent: only the timeout ends
\* a wait
NextLive ==
    \/ FirstPoll
    \/ SetModeCall
    \/ PeerCall
    \/ Bind
    \/ Endpoint
    \/ TimedOut
    \/ Elapse

\* the event loop runs every task that is ready, fires every timer that is
\* due, and time passes; the device and the callers are under no obligation
Fairness ==
    /\ WF_vars(Bind)
    /\ WF_vars(Endpoint)
    /\ WF_vars(TimedOut)
    /\ WF_vars(Elapse)

SpecLive == InitGate /\ [][NextLive]_vars /\ Fairness

(* ------------------------------ claims ------------------------------- *)
\* the callers whose bind port is p
OnPort(p) == {c \in Callers : BindPort(ClientOf(c)) = p}

\* the callers inside the bind/send/receive sequence
InSequence == {c \in Callers : pc[c] \in {"locked", "endpoint", "wait"}}

\* the cycle that has just ended got no data from ES.GetStatus
PrimaryFailed == cycle_out.kind # "none" /\ cycle_out.energy.kind = "none"

\* C1: whatever datagrams arrive, a reply object that _udp_call returns is a
\* JSON object sent from the device address whose "id" is the id of the
\* request of that call; no other datagram is ever returned.
C1_ReplyMatches ==
    ret.kind = "reply" =>
        /\ ret.dgram.kind = "object"
        /\ ret.dgram.id = <<ret.id>>
        /\ ret.dgram.src = DeviceIp
        /\ ret.id >= 1

\* a later request of the cycle (its id is not the first one) got its reply
C1_Witness ==
    /\ ret.kind = "reply"
    /\ ret.caller = "poll"
    /\ ret.id > 1
    /\ ret.dgram.id = <<ret.id>>

C3_ExitReleases ==
    \A c \in Callers :
        pc[c] = "idle" =>
            /\ sock[c] = "none"
            /\ \A p \in DOMAIN port_locks :
                 /\ port_locks[p].owner # c
                 /\ \A i \in 1 .. Len(port_locks[p].waiters) :
                      port_locks[p].waiters[i] # c

\* the call left through the failure of the endpoint creation
C3_Witness ==
    /\ ret.caller = "poll"
    /\ ret.exit = "endpoint"
    /\ ret.kind = "raise"
    /\ pc["poll"] = "idle"

\* C4: the deadline of a call is its send time plus the timeout; it is not
\* moved while the call waits, every wait ends at it, a discarded datagram
\* keeps it, the call does not time out before it and does not wait beyond it.
C4_Deadline ==
    [][\A c \in Callers :
        /\ (pc[c] # "wait" /\ pc'[c] = "wait") =>
              /\ sent_at'[c] = now
              /\ deadline'[c] = now + Timeout
        /\ pc'[c] = "wait" =>
              /\ timer'[c] = deadline'[c]
              /\ deadline'[c] = sent_at'[c] + Timeout
              /\ now' <= deadline'[c]
        /\ (pc[c] = "wait" /\ pc'[c] = "wait") => deadline'[c] = deadline[c]
        /\ (pc[c] = "wait" /\ pc'[c] = "idle" /\ ret'.exit = "timeout") =>
              now >= deadline[c]
        /\ (pc[c] = "wait" /\ pc'[c] = "wait"
              /\ Len(recv_queue'[c]) < Len(recv_queue[c])) =>
              now < deadline[c]
      ]_vars

\* the first call of the run timed out when exactly the timeout had passed
C4_Witness ==
    /\ ret.exit = "timeout"
    /\ ret.caller = "poll"
    /\ ret.id = 1
    /\ now = Timeout

\* C5: in a fresh snapshot before smoothing every key set from the energy
\* status has the energy value whatever the battery status holds; the battery
\* soc fills "soc", and "bat_soc" only when the energy status has none.
C5_MergePrecedence ==
    cycle_out.kind = "fresh" =>
        LET es == cycle_out.energy.rec
            m == cycle_out.merged
            bs == cycle_out.battery
        IN /\ \A k \in EnergyKeys :
                es[k] # NoneV => k \in DOMAIN m /\ m[k] = es[k]
           /\ (bs.kind = "data" /\ bs.rec["soc"] # NoneV) =>
                /\ Get(m, "soc") = bs.rec["soc"]
                /\ es["bat_soc"] = NoneV => Get(m, "bat_soc") = bs.rec["soc"]
           /\ \A k \in DOMAIN m \cap DOMAIN BatteryDefaults :
                bs.kind = "data" /\ m[k] = bs.rec[k]

\* energy bat_soc = 50 and battery soc = 55 give bat_soc = 50 and soc = 55
C5_Witness ==
    /\ cycle_out.kind = "fresh"
    /\ cycle_out.energy.rec["bat_soc"] = IntV(50)
    /\ cycle_out.battery.kind = "data"
    /\ cycle_out.battery.rec["soc"] = IntV(55)
    /\ Get(cycle_out.merged, "bat_soc") = IntV(50)
    /\ Get(cycle_out.merged, "soc") = IntV(55)

\* C6: with a threshold T > 0 and a previous snapshot, a numeric power key
\* whose previous value p is numeric commits p when |new - p| < T and the new
\* reading when |new - p| >= T; with T = 0 or no previous snapshot every value
\* is committed as read.
C6_Smoothing ==
    cycle_out.kind = "fresh" =>
        \A k \in DOMAIN cycle_out.merged :
            LET v == cycle_out.merged[k]
                c == Get(cycle_out.data, k)
                p == IF cycle_out.prev = <<>> THEN NoneV
                     ELSE Get(cycle_out.prev[1], k)
            IN IF min_delta > 0 /\ cycle_out.prev # <<>> /\ k \in PowerKeys
                   /\ IsNumber(v) /\ IsNumber(p)
               THEN IF Abs(v.n - p.n) < min_delta THEN c = p ELSE c = v
               ELSE (min_delta = 0 \/ cycle_out.prev = <<>>) => c = v

\* previous bat_power = Base, a reading below the threshold away: frozen
C6_Witness ==
    /\ cycle_out.kind = "fresh"
    /\ min_delta = Threshold
    /\ cycle_out.prev # <<>>
    /\ Get(cycle_out.prev[1], "bat_power") = IntV(Base)
    /\ Get(cycle_out.merged, "bat_power") = IntV(Base + Threshold - 2)
    /\ Get(cycle_out.data, "bat_power") = IntV(Base)

\* C7: a cycle whose primary query yields no data after an earlier commit
\* returns the last committed snapshot, equal in every key except that the
\* staleness flag is true, however many such cycles follow one another.
C7_StaleFallback ==
    (PrimaryFailed /\ cycle_out.prev # <<>>) =>
        /\ cycle_out.kind = "stale"
        /\ DOMAIN cycle_out.data = DOMAIN cycle_out.prev[1]
        /\ \A k \in DOMAIN cycle_out.data :
             cycle_out.data[k] =
                IF k = "_stale" THEN BoolV(TRUE) ELSE cycle_out.prev[1][k]
        /\ "_last_success" \in DOMAIN cycle_out.data
        /\ last_data = cycle_out.prev

\* the second stale cycle in a row, after a call that timed out
C7_Witness ==
    /\ cycle_out.kind = "stale"
    /\ cycle_out.streak >= 2
    /\ ret.exit = "timeout"

\* C8: a cycle whose primary query yields no data while nothing has ever been
\* committed raises UpdateFailed, returns no snapshot, and the cache stays
\* empty.
C8_FirstFailure ==
    (PrimaryFailed /\ cycle_out.prev = <<>>) =>
        /\ cycle_out.kind = "UpdateFailed"
        /\ cycle_out.data = EmptyDict
        /\ last_data = <<>>
        /\ last_success = <<>>

\* the second cycle of a run fails like the first one
C8_Witness ==
    /\ cycle_out.kind = "UpdateFailed"
    /\ cycles = 2
    /\ cyc = "idle"

\* C9: UpdateFailed is raised only when the primary query failed and nothing
\* is committed, never after a commit, and no other error leaves a cycle.
C9_OnlyUpdateFailed ==
    /\ cycle_out.kind = "UpdateFailed" =>
         cycle_out.energy.kind = "none" /\ cycle_out.prev = <<>>
    /\ cycle_out.prev # <<>> => cycle_out.kind \in {"none", "fresh", "stale"}
    /\ cycle_out.kind # "error"

\* C10: every id issued is in 1 .. 2^31-1, the id after 2^31-1 is 1, the ids
\* of one client are pairwise distinct, and an operation draws a new id even
\* when the transaction before it failed or timed out.
C10_Ids ==
    \A cl \in Clients :
        LET ids == issued[cl] IN
        /\ \A i \in 1 .. Len(ids) : ids[i] >= 1 /\ ids[i] <= IdMask
        /\ \A i \in 1 .. Len(ids) : \A j \in 1 .. Len(ids) :
             i # j => ids[i] # ids[j]
        /\ \A i \in 1 .. Len(ids) - 1 :
             ids[i + 1] = IF ids[i] = IdMask THEN 1 ELSE ids[i] + 1
        /\ ids # <<>> => req_id[cl] = ids[Len(ids)]
        /\ \A c \in Callers :
             (pc[c] # "idle" /\ ClientOf(c) = cl) =>
                /\ \E i \in 1 .. Len(ids) : ids[i] = call_id[c]
                /\ (ret.kind \in {"None", "raise"} /\ ClientOf(ret.caller) = cl)
                      => call_id[c] # ret.id

\* the id after 2^31-1 was 1, and a call of that client has failed
C10_Witness ==
    /\ \E i \in 1 .. Len(issued["A"]) - 1 :
         issued["A"][i] = IdMask /\ issued["A"][i + 1] = 1
    /\ ret.kind = "None"
    /\ pc["poll"] # "idle"

\* the order of the queries of a cycle
QueryOrder == <<"get_status", "get_mode", "get_battery_status">>

\* C12: a cycle calls ES.GetStatus, ES.GetMode, Bat.GetStatus in this order;
\* a query after the first starts only when the one before has returned and
\* the spacing delay has passed since, and only the query started last is in
\* flight.
C12_QueryOrder ==
    [][/\ Len(queries') <= Len(QueryOrder)
       /\ \A i \in 1 .. Len(queries') : queries'[i] = QueryOrder[i]
       /\ pc'["poll"] # "idle" => op'["poll"] = queries'[Len(queries')]
       /\ (queries' # queries /\ Len(queries') > 1) =>
            /\ pc["poll"] = "idle"
            /\ ret.caller = "poll"
            /\ energy_status.kind = "data"
            /\ Len(queries') = 3 => mode.kind \in {"none", "data"}
            /\ now >= returned_at + INTER_CALL_DELAY
      ]_vars

\* the battery query is in flight after a mode query that got no data
C12_Witness ==
    /\ queries = QueryOrder
    /\ pc["poll"] = "wait"
    /\ mode.kind = "none"
    /\ energy_status.kind = "data"
    /\ now >= returned_at + INTER_CALL_DELAY

\* C13: a cycle whose primary query succeeded commits and returns a fresh
\* snapshot with the staleness flag false whatever the mode query and the
\* battery query come to; a secondary query without data only leaves its
\* keys out.
C13_SecondaryNeverEscalates ==
    (cycle_out.kind # "none" /\ cycle_out.energy.kind = "data") =>
        /\ cycle_out.kind = "fresh"
        /\ Get(cycle_out.data, "_stale") = BoolV(FALSE)
        /\ last_data = <<cycle_out.data>>
        /\ mode.kind # "data" => "es_mode" \notin DOMAIN cycle_out.data
        /\ cycle_out.battery.kind # "data" => "soc" \notin DOMAIN cycle_out.data

\* the typed result of the query of the cycle that returned last
LastQueryResult ==
    CASE Len(queries) = 1 -> energy_status
      [] Len(queries) = 2 -> mode
      [] OTHER -> bat_status

\* C14: a bind failure, a send failure and the expiry of the deadline make
\* _udp_call return None, never raise; the query then returns no data and
\* set_mode returns false, the same for each of the three.
C14_NoRaise ==
    ret.exit \in {"bind", "send", "timeout"} =>
        /\ ret.kind = "None"
        /\ (ret.caller = "setm" /\ pc["setm"] = "idle") =>
              set_ret = [kind |-> "bool", ok |-> FALSE]
        /\ (ret.caller = "poll" /\ pc["poll"] = "idle") => LastQueryResult = NoData

\* set_mode returned false after its send failed
C14_Witness ==
    /\ ret.exit = "send"
    /\ ret.caller = "setm"
    /\ set_ret = [kind |-> "bool", ok |-> FALSE]

\* the last call of _udp_call that ended was that of set_mode, which has
\* returned
SetModeDone ==
    ret.caller = "setm" /\ pc["setm"] = "idle" /\ ret.kind # "raise"

C16_PassThrough ==
    /\ commands <= set_calls
    /\ entity_call # NoCall => entity_call.job.kind = "bool"
    /\ refresh_requests > 0 => set_ret = [kind |-> "bool", ok |-> TRUE]
    /\ number_last # <<>> => set_ret = [kind |-> "bool", ok |-> TRUE]

\* the configuration key that belongs to a mode
CfgOf(m) ==
    CASE m = "Auto" -> "auto_cfg"
      [] m = "AI" -> "ai_cfg"
      [] m = "Manual" -> "manual_cfg"
      [] OTHER -> "passive_cfg"

\* C17: for each of Auto, AI, Manual, Passive, selecting the option calls
\* set_mode with that mode name and its configuration key, and a snapshot
\* whose es_mode is that name makes current_option report it.
C17_ModeNames ==
    /\ entity_call.option # "" =>
         /\ entity_call.mode = entity_call.option
         /\ entity_call.cfg = CfgOf(entity_call.option)
    /\ \A i \in 1 .. Len(MODES) :
         (coord_data # <<>> /\ Get(coord_data[1], "es_mode") = StrV(MODES[i]))
            => current_option(coord_data) = <<MODES[i]>>

\* C18: entities exist only with a snapshot to read: what they read is fresh
\* (staleness flag false) or the stale-flagged copy of an earlier commit; a
\* first refresh that failed does not leave entities on an empty snapshot.
C18_ThreeSituations ==
    entities =>
        /\ EntityData # EmptyDict
        /\ Get(EntityData, "_stale") \in {BoolV(FALSE), BoolV(TRUE)}
        /\ Get(EntityData, "_stale") = BoolV(TRUE) => last_data # <<>>

\* C19: a transaction ends only by an accepted reply, at its deadline or by
\* an error of the socket: a datagram from the device address, from whatever
\* source port, that carries a JSON object with the id of the request and is
\* taken from the queue before the deadline is the reply that is returned,
\* also after other datagrams were discarded; a datagram with a wrong sender,
\* no JSON, no object or a wrong id taken before the deadline only leaves the
\* queue, and the call keeps waiting for the same id until the same deadline.
C19_JunkNeverEnds ==
    [][\A c \in Callers :
        LET q == recv_queue[c]
            good == /\ q # <<>>
                    /\ Head(q).src = DeviceIp
                    /\ Head(q).kind = "object"
                    /\ Head(q).id = <<call_id[c]>>
            taken == pc'[c] # "wait" \/ Len(recv_queue'[c]) < Len(q)
        IN pc[c] = "wait" =>
            /\ (taken /\ good /\ now < deadline[c] /\ ret'.exit # "error") =>
                  /\ pc'[c] = "idle"
                  /\ ret' = Returned(c, call_id[c], RetReply(Head(q)))
            /\ (taken /\ q # <<>> /\ ~good /\ now < deadline[c]
                  /\ ret'.exit # "error") =>
                  /\ pc'[c] = "wait"
                  /\ recv_queue'[c] = Tail(q)
                  /\ call_id'[c] = call_id[c]
                  /\ deadline'[c] = deadline[c]
                  /\ op'[c] = op[c]
            /\ pc'[c] # "wait" =>
                  \/ ret'.exit = "accepted" /\ good
                  \/ ret'.exit = "timeout" /\ now >= deadline[c]
                  \/ ret'.exit = "error"
      ]_vars

\* a later query of the cycle got its reply from another source port
C19_Witness ==
    /\ ret.kind = "reply"
    /\ ret.caller = "poll"
    /\ ret.id > 1
    /\ ret.dgram.sport = EphemeralPort
    /\ ret.dgram.id = <<ret.id>>

\* C20: a datagram whose bytes are not valid UTF-8 is never the accepted
\* reply: every reply that _udp_call returns was valid UTF-8 as a whole.
C20_InvalidUtf8Discarded ==
    ret.kind = "reply" => ret.dgram.utf8

\* the fields of the reply that the last query of the cycle got
ReplyFields ==
    IF ret.kind = "reply" /\ ret.dgram.result.kind = "dict"
    THEN DOMAIN ret.dgram.result.fields ELSE {}

\* the battery field a key of the snapshot is filled from
BatteryField(k) == IF k \in {"bat_soc", "soc"} THEN "soc" ELSE k

\* C21: a key derived from a reply field is in the cycle's snapshot only if
\* the field was in that cycle's reply: after ES.GetStatus every key of the
\* dict is a field of the reply, after ES.GetMode "es_mode" is there only if
\* the reply had "mode", and a key of the fresh snapshot that neither of them
\* set is a field of the battery reply.
C21_AbsentOmitted ==
    /\ cyc = "sleep1" => DOMAIN status \subseteq ReplyFields
    /\ (cyc = "sleep2" /\ "es_mode" \in DOMAIN status) => "mode" \in ReplyFields
    /\ cycle_out.kind = "fresh" =>
         \A k \in DOMAIN cycle_out.merged :
            \/ k \in EnergyKeys /\ cycle_out.energy.rec[k] # NoneV
            \/ k = "es_mode"
            \/ BatteryField(k) \in ReplyFields

\* the two keys that the commit adds to every snapshot
ReservedKeys == {"_stale", "_last_success"}

\* the keys that the replies of the cycle that has just ended account for
FromReplies ==
    {k \in EnergyKeys : cycle_out.energy.rec[k] # NoneV}
    \cup {k \in {"es_mode"} : mode.kind = "data"}
    \cup {k \in {"bat_soc", "soc"} \cup DOMAIN BatteryDefaults :
            /\ k # "id"
            /\ cycle_out.battery.kind = "data"
            /\ cycle_out.battery.rec[BatteryField(k)] # NoneV}

C23_CacheFrame ==
    [][/\ (last_data' # last_data \/ last_success' # last_success) =>
             /\ cyc = "battery" /\ cyc' = "idle"
             /\ cycle_out'.kind = "fresh"
             /\ cycle_out'.energy.kind = "data"
             /\ last_data' = <<cycle_out'.data>>
             /\ last_success' = <<now>>
       /\ cycle_out'.kind \in {"stale", "UpdateFailed"} =>
             UNCHANGED <<last_data, last_success>>
       /\ (\/ pc["setm"] # "waitlock" /\ pc'["setm"] # pc["setm"]
           \/ set_ret' # set_ret
           \/ recv_queue'["setm"] # recv_queue["setm"]) =>
             UNCHANGED <<last_data, last_success>>
       /\ last_data' # <<>> =>
             /\ Get(last_data'[1], "_stale") = BoolV(FALSE)
             /\ last_success' # <<>>
             /\ Get(last_data'[1], "_last_success") = TimeV(last_success'[1])
      ]_vars

\* a stale cycle has ended after a set_mode call and a commit: the cache
\* still holds the snapshot of the commit
C23_Witness ==
    /\ cycle_out.kind = "stale"
    /\ set_ret.kind = "bool"
    /\ last_data = cycle_out.prev
    /\ last_data # <<>>
    /\ last_success # <<>>
    /\ last_success[1] < now

\* C24: every cycle whose primary query gave data ends with a commit: it
\* stores its smoothed snapshot as the cache, stamped with the time of the
\* commit, and returns it with the staleness flag false, also right after
\* stale cycles; every snapshot that a cycle returns or that consumers read
\* has both reserved keys.
C24_CommitAndRecovery ==
    /\ (cycle_out.kind # "none" /\ cycle_out.energy.kind = "data") =>
          /\ cycle_out.kind = "fresh"
          /\ cycle_out.data = Committed(status, now)
          /\ last_data = <<cycle_out.data>>
          /\ last_success = <<now>>
          /\ coord_data = <<cycle_out.data>>
          /\ Get(cycle_out.data, "_stale") = BoolV(FALSE)
          /\ Get(cycle_out.data, "_last_success") = TimeV(now)
    /\ cycle_out.kind \in {"fresh", "stale"} =>
          ReservedKeys \subseteq DOMAIN cycle_out.data
    /\ coord_data # <<>> => ReservedKeys \subseteq DOMAIN coord_data[1]

\* C25: a dict object that a cycle handed to the consumers keeps its items:
\* while coordinator.data or _last_data refers to the same object after a
\* step of any cycle as before it, its items are the same, also for the
\* object that is both the cache and the snapshot handed out; a cycle that
\* hands out a snapshot hands out an object that was not handed out before.
C25_HandedNeverModified ==
    [][/\ (data_id # 0 /\ data_id' = data_id) => coord_data' = coord_data
       /\ (last_id # 0 /\ last_id' = last_id) => last_data' = last_data
       /\ (data_id # 0 /\ last_id' = data_id) => last_data' = coord_data
       /\ (data_id # 0 /\ cycle_out'.kind \in {"fresh", "stale"}
             /\ cycle_out.kind = "none") =>
             data_id' \notin {data_id, last_id}
      ]_vars

\* the second commit of a run: the cache is a new object with a later
\* timestamp, and the snapshot of the first commit is as it was handed out
C25_Witness ==
    /\ cycle_out.kind = "fresh"
    /\ cycle_out.prev # <<>>
    /\ last_id = CommitObject(last_success[1])
    /\ data_id = last_id
    /\ Get(cycle_out.prev[1], "_last_success").n < last_success[1]
    /\ Get(cycle_out.prev[1], "_stale") = BoolV(FALSE)

\* the local port that the entry of caller c is configured to bind
ConfiguredPort(c) ==
    IF local_port[ClientOf(c)] # 0 THEN local_port[ClientOf(c)] ELSE DEFAULT_PORT

\* the callers other than c that hold or await the gate of the port of c
Rivals(c) ==
    {d \in Callers \ {c} :
        ConfiguredPort(d) = ConfiguredPort(c) /\ pc[d] # "idle"}

\* C26: a caller waits for a gate only while another caller of the same
\* local port holds it; a call that starts while no other caller of its port
\* is inside or waiting gets its gate in that step, whatever is going on at
\* other ports; and a waiting caller gets its gate in the step in which the
\* caller of the same port that held it returns.
C26_PortsIndependent ==
    [][\A c \in Callers :
        /\ pc'[c] = "waitlock" =>
              \E d \in Callers \ {c} :
                 /\ ConfiguredPort(d) = ConfiguredPort(c)
                 /\ pc'[d] \in {"locked", "endpoint", "wait"}
        /\ (pc[c] = "idle" /\ pc'[c] # "idle" /\ Rivals(c) = {}) =>
              pc'[c] = "locked"
        /\ (pc[c] = "waitlock" /\ pc'[c] # "waitlock") =>
              /\ pc'[c] = "locked"
              /\ \E d \in Callers \ {c} :
                    /\ ConfiguredPort(d) = ConfiguredPort(c)
                    /\ pc[d] \in {"locked", "endpoint", "wait"}
                    /\ pc'[d] = "idle"
      ]_vars

\* the callers of two local ports are inside their transactions at the same
\* time, each with its socket open, while a third one waits for one gate
C26_Witness ==
    /\ local_port["B"] = AltPort
    /\ pc["peer"] = "wait"
    /\ pc["poll"] = "wait"
    /\ pc["setm"] = "waitlock"
    /\ sock["peer"] = "transport"
    /\ sock["poll"] = "transport"

\* C27: a call that is inside its transaction is never past its deadline,
\* which is the timeout after its send; under fair scheduling every caller
\* that waits for a gate gets it, and every call that has started returns.
C27_Terminates ==
    /\ [](\A c \in Callers : pc[c] = "wait" => now <= sent_at[c] + Timeout)
    /\ \A c \in Callers : (pc[c] = "waitlock") ~> (pc[c] = "locked")
    /\ \A c \in Callers : (pc[c] # "idle") ~> (pc[c] = "idle")

\* all three callers have returned, the last one by its timeout after it
\* had waited for the gate behind the other two
C27_Witness ==
    /\ \A c \in Callers : pc[c] = "idle"
    /\ ret.exit = "timeout"
    /\ ret.caller = "peer"
    /\ local_port["B"] = 0
    /\ set_ret.kind = "bool"
    /\ cycles = 1
    /\ cyc = "idle"
    /\ now >= 2 * Timeout

\* the place of id i among the ids that client cl has issued, in order
IssuedAt(cl, i) ==
    CHOOSE n \in 0 .. Len(issued[cl]) :
        IF \E k \in 1 .. Len(issued[cl]) : issued[cl][k] = i
        THEN n > 0 /\ issued[cl][n] = i
        ELSE n = 0

\* C28: the waiters of a gate are served first come, first served: a caller
\* that starts to wait joins the end of the queue, and a release hands the
\* gate to the head of the queue; hence when a request is transmitted, every
\* request of the same client on that port that is still waiting for the
\* gate got its id later.
C28_Fifo ==
    [][/\ \A p \in DOMAIN port_locks :
            LET w == port_locks[p].waiters
                v == port_locks'[p].waiters
            IN \/ v = w
               \/ \E c \in Callers : pc[c] = "idle" /\ v = Append(w, c)
               \/ /\ w # <<>>
                  /\ v = Tail(w)
                  /\ port_locks'[p].owner = Head(w)
                  /\ pc'[Head(w)] = "locked"
       /\ \A c \in Callers :
            (pc[c] = "endpoint" /\ pc'[c] = "wait") =>
               \A d \in Callers \ {c} :
                  (ClientOf(d) = ClientOf(c) /\ pc[d] # "idle") =>
                     /\ pc[d] = "waitlock"
                     /\ IssuedAt(ClientOf(c), call_id[c])
                          < IssuedAt(ClientOf(d), call_id[d])
      ]_vars

\* three callers on one port: the caller of the other entry has returned
\* last, the request of client A with id 1 is transmitted, and its request
\* with id 2 waits for the gate
C28_Witness ==
    /\ ret.caller = "peer"
    /\ local_port["B"] = 0
    /\ pc["peer"] = "idle"
    /\ pc["setm"] = "wait"
    /\ pc["poll"] = "waitlock"
    /\ call_id["setm"] = 1
    /\ call_id["poll"] = 2

\* C29: with smoothing, over any run of cycles, the committed value of a
\* numeric power key is less than the threshold away from the reading of that
\* cycle; it differs from the reading only by being the value committed
\* before, so a reading that is the threshold or more away from the frozen
\* value is committed; with threshold 0 it is the reading. Every other key
\* and every value that is not a number is committed as read.
C29_BoundedFreeze ==
    cycle_out.kind = "fresh" =>
        \A k \in DOMAIN cycle_out.merged :
            LET v == cycle_out.merged[k]
                c == Get(cycle_out.data, k)
            IN IF k \in PowerKeys /\ IsNumber(v)
               THEN /\ IsNumber(c)
                    /\ min_delta = 0 => c = v
                    /\ min_delta > 0 => Abs(c.n - v.n) < min_delta
                    /\ c # v =>
                         /\ cycle_out.prev # <<>>
                         /\ c = Get(cycle_out.prev[1], k)
                    /\ cycle_out.prev # <<>> => Get(last_data[1], k) = c
               ELSE c = v

\* the third cycle of a run: the value committed before is Base, the reading
\* is exactly the threshold away from it and is committed
C29_Witness ==
    /\ cycle_out.kind = "fresh"
    /\ min_delta = Threshold
    /\ cycles = 3
    /\ cycle_out.prev # <<>>
    /\ Get(cycle_out.prev[1], "bat_power") = IntV(Base)
    /\ Get(cycle_out.prev[1], "_last_success").n > 0
    /\ Get(cycle_out.merged, "bat_power") = IntV(Base + Threshold)
    /\ Get(cycle_out.data, "bat_power") = IntV(Base + Threshold)

\* the datagram at the head of the queue of caller c answers the request of
\* the same client that returned last, without a reply
LateReply(c) ==
    /\ recv_queue[c] # <<>>
    /\ ret.kind \in {"None", "raise"}
    /\ ret.caller # ""
    /\ ClientOf(ret.caller) = ClientOf(c)
    /\ Head(recv_queue[c]).src = DeviceIp
    /\ Head(recv_queue[c]).kind = "object"
    /\ Head(recv_queue[c]).id = <<ret.id>>

\* C30: a reply to an earlier request of the client that timed out or failed
\* does not carry the id of the request in flight, is never returned by the
\* later transaction, and when it is taken before the deadline it only leaves
\* the queue; a transaction starts with an empty queue and a queue holds
\* datagrams only while its endpoint is open.
C30_LateReplyDiscarded ==
    [][\A c \in Callers :
        /\ (pc[c] = "wait" /\ LateReply(c)) =>
              /\ Head(recv_queue[c]).id # <<call_id[c]>>
              /\ pc'[c] # "wait" => ret'.kind # "reply"
              /\ (pc'[c] = "wait" /\ Len(recv_queue'[c]) < Len(recv_queue[c])) =>
                    /\ recv_queue'[c] = Tail(recv_queue[c])
                    /\ call_id'[c] = call_id[c]
                    /\ deadline'[c] = deadline[c]
        /\ pc'[c] # "wait" => recv_queue'[c] = <<>>
        /\ recv_queue'[c] # <<>> => sock'[c] = "transport"
      ]_vars

\* the first request timed out; its reply is in the queue of the second
\* transaction, which waits for id 2
C30_Witness ==
    /\ pc["poll"] = "wait"
    /\ LateReply("poll")
    /\ ret.exit = "timeout"
    /\ ret.id = 1
    /\ call_id["poll"] = 2
    /\ now < deadline["poll"]


\* the poll cycle's caller starts a transaction in this step
PollCalls == pc["poll"] = "idle" /\ pc'["poll"] # "idle"

\* C31: a cycle whose ES.GetStatus returned no data ends in the step of that
\* return, with the stale copy when a snapshot is cached and UpdateFailed
\* otherwise; it has sent ES.GetStatus only and taken one request id, and no
\* transaction of the poll starts before the next cycle does.
C31_NoDataEndsCycle ==
    [][/\ (cyc = "status" /\ cyc' # "status" /\ energy_status'.kind = "none") =>
             /\ cyc' = "idle"
             /\ pc'["poll"] = "idle"
             /\ queries' = <<"get_status">>
             /\ issued' = issued
             /\ req_id' = req_id
             /\ cycle_out'.kind = IF HasLast(last_data) THEN "stale"
                                  ELSE "UpdateFailed"
             /\ cycle_out'.kind = "stale" =>
                   coord_data' = <<StaleCopy(last_data[1])>>
       /\ (cyc = "idle" /\ energy_status.kind = "none" /\ cycles > 0) =>
             /\ queries = <<"get_status">>
             /\ mode = NoData
             /\ bat_status = NoData
             /\ cycle_out.kind \in {"stale", "UpdateFailed"}
             /\ PollCalls => (cycles' = cycles + 1 /\ op'["poll"] = "get_status")
       /\ PollCalls =>
             /\ Len(queries') = IF cyc = "idle" THEN 1 ELSE Len(queries) + 1
             /\ issued'["A"] = Append(issued["A"], call_id'["poll"])
       /\ queries' # queries => PollCalls
      ]_vars

\* the second cycle got no answer while set_mode had taken an id: the stale
\* copy was returned after one query
C31_Witness ==
    /\ cyc = "idle"
    /\ cycles = 2
    /\ energy_status.kind = "none"
    /\ cycle_out.kind = "stale"
    /\ queries = <<"get_status">>
    /\ ret.caller = "poll"
    /\ ret.exit = "timeout"
    /\ set_calls > 0

====
